---- MODULE Spec2Model ----
(***************************************************************************)
(* Model of the GST reconciliation engine (src/reconciliation_engine.py):  *)
(* the matcher reconcile() over two canonical invoice tables, and the two  *)
(* normalizers parse_tally() / parse_gstr2b() over raw spreadsheet grids.  *)
(*                                                                         *)
(* Conventions                                                             *)
(*   - a table is a sequence of rows, a row is a record (column -> value); *)
(*   - a string is a sequence of one-character strings;                    *)
(*   - a date is a day number, amounts are integers counted in hundredths  *)
(*     of the currency unit (binary floating-point rounding is outside    *)
(*     the model), so the tolerance "1" of the source is 100;              *)
(*   - reconcile() reads only GSTIN, Invoice_No, Invoice_Date,             *)
(*     Taxable_Value and TOTAL_TAX; the remaining canonical columns are    *)
(*     carried through unread and are left out of the reconcile rows.      *)
(***************************************************************************)
EXTENDS Integers, Sequences, FiniteSets, TLC

VARIABLES gstr2b_df, tally_df, merged, results, pc, raw, fn, parsed, ppc,
          session_state, selected_month, apc

rvars == <<gstr2b_df, tally_df, merged, results, pc>>

pvars == <<raw, fn, parsed, ppc>>

avars == <<session_state, selected_month, apc>>

vars == <<rvars, pvars, avars>>

(***************************************************************************)
(* Bounds and input domains of the reconcile specification                 *)
(***************************************************************************)
MaxRows == 2

\* three invoices of two suppliers, as (GSTIN, Invoice_No)
Keys == {<<<<"G">>, <<"1">>>>, <<<<"G">>, <<"2">>>>, <<<<"H">>, <<"1">>>>}

\* (Invoice_Date, Taxable_Value, TOTAL_TAX) of the statement rows and of the
\* books rows: between them the differences are +-5 / +-6 days and
\* +-100 / +-101 hundredths, on both sides of each tolerance.
Attrs2B == {<<5, 100, 100>>, <<5, 101, 101>>, <<6, 100, 100>>, <<6, 101, 101>>}

AttrsBooks == {<<0, 0, 0>>, <<0, 0, 201>>, <<11, 201, 0>>, <<11, 201, 201>>}

CanonRow(k, a) ==
    [GSTIN |-> k[1], Invoice_No |-> k[2], Invoice_Date |-> a[1],
     Taxable_Value |-> a[2], TOTAL_TAX |-> a[3]]

Rows2B == {CanonRow(k, a) : k \in Keys, a \in Attrs2B}

RowsBooks == {CanonRow(k, a) : k \in Keys, a \in AttrsBooks}

PairKey(r) == <<r.GSTIN, r.Invoice_No>>

\* tables whose (GSTIN, Invoice_No) is unique, as the normalizers return them
RECURSIVE TablesOver(_, _)
TablesOver(rows, n) ==
    IF n = 0 THEN {<<>>}
    ELSE LET shorter == TablesOver(rows, n - 1)
         IN  shorter \cup
             {Append(t, r) : t \in {s \in shorter : Len(s) = n - 1}, r \in rows}

UniqueKeys(t) == \A i, j \in 1..Len(t) : PairKey(t[i]) = PairKey(t[j]) => i = j

CanonTables(rows) == {t \in TablesOver(rows, MaxRows) : UniqueKeys(t)}

(***************************************************************************)
(* reconcile                                                               *)
(***************************************************************************)
ValueTol == 100
TaxTol == 100
DateTol == 5

Abs(x) == IF x < 0 THEN -x ELSE x

\* the key without the invoice number
MatchKey_NoInvoice(r) == r.GSTIN \o <<"|">>

MatchKey(r) == r.GSTIN \o <<"|">> \o r.Invoice_No

\* the key written over the GSTIN column as well
WithMatchKey_IntoGstin(df) ==
    [i \in 1..Len(df) |->
        [c \in (DOMAIN df[i]) \cup {"Match_Key"} |->
            IF c \in {"Match_Key", "GSTIN"} THEN MatchKey(df[i]) ELSE df[i][c]]]

\* df['Match_Key'] = df['GSTIN'] + '|' + df['Invoice_No'] : the column is
\* added to (or overwritten in) the caller's table
WithMatchKey(df) ==
    [i \in 1..Len(df) |->
        [c \in (DOMAIN df[i]) \cup {"Match_Key"} |->
            IF c = "Match_Key" THEN MatchKey(df[i]) ELSE df[i][c]]]

KeySet(df) == {df[i].Match_Key : i \in 1..Len(df)}

IsIn(df, keys) == SelectSeq(df, LAMBDA r : r.Match_Key \in keys)

NotIn(df, keys) == SelectSeq(df, LAMBDA r : r.Match_Key \notin keys)

DateMatch(l, r) == Abs(l.Invoice_Date - r.Invoice_Date) <= DateTol

\* strict comparison against the tolerance
ValueMatch_Strict(l, r) == Abs(l.Taxable_Value - r.Taxable_Value) < ValueTol

ValueMatch(l, r) == Abs(l.Taxable_Value - r.Taxable_Value) <= ValueTol

TaxMatch(l, r) == Abs(l.TOTAL_TAX - r.TOTAL_TAX) <= TaxTol

\* one row of pd.merge(left, right, on='Match_Key', suffixes=('_2B','_Tally'))
\* with the three predicates and the two differences computed on it
MergedRow(l, r) ==
    [Match_Key           |-> l.Match_Key,
     GSTIN_2B            |-> l.GSTIN,
     Invoice_No_2B       |-> l.Invoice_No,
     Invoice_Date_2B     |-> l.Invoice_Date,
     Taxable_Value_2B    |-> l.Taxable_Value,
     TOTAL_TAX_2B        |-> l.TOTAL_TAX,
     GSTIN_Tally         |-> r.GSTIN,
     Invoice_No_Tally    |-> r.Invoice_No,
     Invoice_Date_Tally  |-> r.Invoice_Date,
     Taxable_Value_Tally |-> r.Taxable_Value,
     TOTAL_TAX_Tally     |-> r.TOTAL_TAX,
     Date_Match          |-> DateMatch(l, r),
     Value_Match         |-> ValueMatch(l, r),
     Tax_Match           |-> TaxMatch(l, r),
     Difference_Value    |-> l.Taxable_Value - r.Taxable_Value,
     Difference_Tax      |-> l.TOTAL_TAX - r.TOTAL_TAX]

\* the rows of right joined to one left row, in right order
RECURSIVE JoinOne(_, _)
JoinOne(l, right) ==
    IF right = <<>> THEN <<>>
    ELSE (IF Head(right).Match_Key = l.Match_Key
          THEN <<MergedRow(l, Head(right))>> ELSE <<>>)
         \o JoinOne(l, Tail(right))

\* inner join, left order preserved
RECURSIVE Merge(_, _)
Merge(left, right) ==
    IF left = <<>> THEN <<>>
    ELSE JoinOne(Head(left), right) \o Merge(Tail(left), right)

\* no collapsing of equal rows
DropDuplicates_None(df) == df

\* DataFrame.drop_duplicates(): keep the first of equal rows
RECURSIVE DropDuplicates(_)
DropDuplicates(df) ==
    IF df = <<>> THEN <<>>
    ELSE LET init == DropDuplicates(SubSeq(df, 1, Len(df) - 1))
             last == df[Len(df)]
         IN  IF \E i \in 1..Len(init) : init[i] = last
             THEN init ELSE Append(init, last)

FullyMatched(m) == SelectSeq(m, LAMBDA r : r.Date_Match /\ r.Value_Match /\ r.Tax_Match)

ValueMismatch(m) ==
    LET value_mismatch == SelectSeq(m, LAMBDA r : r.Date_Match /\ ~r.Value_Match)
        both_mismatch  == SelectSeq(m, LAMBDA r :
                              r.Date_Match /\ ~r.Value_Match /\ ~r.Tax_Match)
    IN  DropDuplicates(value_mismatch \o both_mismatch)

\* tax mismatch without regard to the value predicate
TaxMismatch_AnyValue(m) == SelectSeq(m, LAMBDA r : r.Date_Match /\ ~r.Tax_Match)

TaxMismatch(m) == SelectSeq(m, LAMBDA r : r.Date_Match /\ r.Value_Match /\ ~r.Tax_Match)

RECURSIVE SumTax(_)
SumTax(df) == IF df = <<>> THEN 0 ELSE Head(df).TOTAL_TAX + SumTax(Tail(df))

\* the credit difference taken books - statement
Summary_Reversed(g, t, fully, mib, mi2b) ==
    [Total_Invoices_Books |-> Len(t),
     Total_Invoices_2B    |-> Len(g),
     Total_Matched        |-> Len(fully),
     Total_Missing_Books  |-> Len(mib),
     Total_Missing_2B     |-> Len(mi2b),
     Total_ITC_Books      |-> SumTax(t),
     Total_ITC_2B         |-> SumTax(g),
     ITC_Difference       |-> SumTax(t) - SumTax(g)]

Summary(g, t, fully, mib, mi2b) ==
    [Total_Invoices_Books |-> Len(t),
     Total_Invoices_2B    |-> Len(g),
     Total_Matched        |-> Len(fully),
     Total_Missing_Books  |-> Len(mib),
     Total_Missing_2B     |-> Len(mi2b),
     Total_ITC_Books      |-> SumTax(t),
     Total_ITC_2B         |-> SumTax(g),
     ITC_Difference       |-> SumTax(g) - SumTax(t)]

NoResults == [status |-> "none"]

\* the call reconcile(gstr2b_df, tally_df): the two tables as the call leaves
\* them, the joined frame and the returned dictionary
reconcile(g_in, t_in) ==
    LET g      == WithMatchKey(g_in)
        t      == WithMatchKey(t_in)
        mib    == NotIn(g, KeySet(t))
        mi2b   == NotIn(t, KeySet(g))
        common == KeySet(g) \cap KeySet(t)
        m      == Merge(IsIn(g, common), IsIn(t, common))
        fully  == FullyMatched(m)
    IN  [gstr2b_df |-> g,
         tally_df  |-> t,
         merged    |-> m,
         results   |-> [status           |-> "ok",
                        fully_matched    |-> fully,
                        missing_in_books |-> mib,
                        missing_in_2b    |-> mi2b,
                        value_mismatch   |-> ValueMismatch(m),
                        tax_mismatch     |-> TaxMismatch(m),
                        summary          |-> Summary(g, t, fully, mib, mi2b)]]

\* a first call, and a second call on the same two table objects
Reconcile ==
    /\ pc \in {"ready", "done"}
    /\ LET out == reconcile(gstr2b_df, tally_df)
       IN  /\ gstr2b_df' = out.gstr2b_df
           /\ tally_df' = out.tally_df
           /\ merged' = out.merged
           /\ results' = out.results
    /\ pc' = (IF pc = "ready" THEN "done" ELSE "again")
    /\ UNCHANGED <<pvars, avars>>

Init ==
    /\ gstr2b_df \in CanonTables(Rows2B)
    /\ tally_df \in CanonTables(RowsBooks)
    /\ merged = <<>>
    /\ results = NoResults
    /\ pc = "ready"
    /\ raw = <<>>
    /\ fn = "none"
    /\ parsed = [status |-> "none"]
    /\ ppc = "idle"
    /\ session_state = NoResults
    /\ selected_month = "All Months"
    /\ apc = "idle"

Next == Reconcile

Spec == Init /\ [][Next]_vars

(***************************************************************************)
(* Text: a string is a sequence of characters                              *)
(***************************************************************************)
UpperLetters == <<"A", "B", "C", "D", "E", "F", "G", "H", "I", "J", "K", "L", "M", "N", "O", "P", "Q", "R", "S", "T", "U", "V", "W", "X", "Y", "Z">>

LowerLetters == <<"a", "b", "c", "d", "e", "f", "g", "h", "i", "j", "k", "l", "m", "n", "o", "p", "q", "r", "s", "t", "u", "v", "w", "x", "y", "z">>

DigitChars == <<"0", "1", "2", "3", "4", "5", "6", "7", "8", "9">>

Range(f) == {f[i] : i \in DOMAIN f}

Position(f, c) == CHOOSE i \in DOMAIN f : f[i] = c

Punctuation == {" ", "/", ".", "_", "-", ",", "(", ")", "|"}

Alphabet == Range(UpperLetters) \cup Range(LowerLetters) \cup Range(DigitChars) \cup Punctuation

\* str.lower() and str.upper(), character by character
LowerMap ==
    [c \in Alphabet |->
        IF c \in Range(UpperLetters) THEN LowerLetters[Position(UpperLetters, c)] ELSE c]

UpperMap ==
    [c \in Alphabet |->
        IF c \in Range(LowerLetters) THEN UpperLetters[Position(LowerLetters, c)] ELSE c]

LowerChar(c) == LowerMap[c]

UpperChar(c) == UpperMap[c]

Lower(s) == [i \in 1..Len(s) |-> LowerChar(s[i])]

Upper(s) == [i \in 1..Len(s) |-> UpperChar(s[i])]

\* str.strip(): leading and trailing blanks removed
RECURSIVE LStrip(_)
LStrip(s) == IF s # <<>> /\ Head(s) = " " THEN LStrip(Tail(s)) ELSE s

RECURSIVE RStrip(_)
RStrip(s) == IF s # <<>> /\ s[Len(s)] = " " THEN RStrip(SubSeq(s, 1, Len(s) - 1)) ELSE s

Strip(s) == RStrip(LStrip(s))

\* sub in s
Contains(s, sub) ==
    \E i \in 1..(Len(s) - Len(sub) + 1) : SubSeq(s, i, i + Len(sub) - 1) = sub

ContainsAny(s, subs) == \E sub \in subs : Contains(s, sub)

\* s.replace(sub, ''), left to right
RECURSIVE Remove(_, _)
Remove(s, sub) ==
    IF Len(s) < Len(sub) THEN s
    ELSE IF SubSeq(s, 1, Len(sub)) = sub
         THEN Remove(SubSeq(s, Len(sub) + 1, Len(s)), sub)
         ELSE <<Head(s)>> \o Remove(Tail(s), sub)

\* the value of a run of decimal digits
RECURSIVE DigitsValue(_)
DigitsValue(s) ==
    IF s = <<>> THEN 0
    ELSE 10 * DigitsValue(SubSeq(s, 1, Len(s) - 1)) + (Position(DigitChars, s[Len(s)]) - 1)

AllDigits(s) == s # <<>> /\ \A i \in 1..Len(s) : s[i] \in Range(DigitChars)

(***************************************************************************)
(* Cells of a raw table: a text, or the missing value NaN of a blank cell. *)
(* A numeric cell stands as its decimal text, for which the numeric and    *)
(* the text branch of parse_numeric return the same number.                *)
(***************************************************************************)
NaN == <<"NaN">>

IsNa(cell) == cell = NaN

\* str(cell), also what astype(str) gives
Str(cell) == IF IsNa(cell) THEN <<"n", "a", "n">> ELSE cell

\* the date that no text parses to
NaT == -1

clean_string(val) == IF IsNa(val) THEN <<>> ELSE Upper(Strip(Str(val)))

\* re.sub(r'[^A-Z0-9]', '', ...)
KeepAlnum(s) == SelectSeq(s, LAMBDA c : c \in Range(UpperLetters) \cup Range(DigitChars))

clean_invoice_number(inv_no) ==
    IF IsNa(inv_no) THEN <<>> ELSE KeepAlnum(Upper(Strip(Str(inv_no))))

\* float(s) of the texts of the model: a run of digits
parse_numeric(value) ==
    IF IsNa(value) THEN 0
    ELSE LET s_value == Strip(Remove(Remove(Remove(Str(value), <<"D", "r">>), <<"C", "r">>), <<",">>))
         IN  IF AllDigits(s_value) THEN DigitsValue(s_value) ELSE 0

\* pd.to_numeric(errors='coerce').fillna(0) on one cell
to_numeric_fillna(value) ==
    IF IsNa(value) THEN 0
    ELSE IF AllDigits(Strip(value)) THEN DigitsValue(Strip(value)) ELSE 0

MonthNames == <<<<"j", "a", "n">>, <<"f", "e", "b">>, <<"m", "a", "r">>, <<"a", "p", "r">>, <<"m", "a", "y">>, <<"j", "u", "n">>,
                <<"j", "u", "l">>, <<"a", "u", "g">>, <<"s", "e", "p">>, <<"o", "c", "t">>, <<"n", "o", "v">>, <<"d", "e", "c">>>>

\* a text of the form dd-Mon-yy as a day number, NaT for any other text
ParseDayMonthYear(s) ==
    IF /\ Len(s) = 9
       /\ s[3] = "-" /\ s[7] = "-"
       /\ AllDigits(SubSeq(s, 1, 2)) /\ AllDigits(SubSeq(s, 8, 9))
       /\ Lower(SubSeq(s, 4, 6)) \in Range(MonthNames)
       /\ DigitsValue(SubSeq(s, 1, 2)) \in 1..31
    THEN (12 * DigitsValue(SubSeq(s, 8, 9)) + Position(MonthNames, Lower(SubSeq(s, 4, 6))) - 1) * 31
         + DigitsValue(SubSeq(s, 1, 2))
    ELSE NaT

\* pd.to_datetime(format='%d-%b-%y', errors='coerce') on one cell
to_datetime_tally(cell) == IF IsNa(cell) THEN NaT ELSE ParseDayMonthYear(cell)

\* pd.to_datetime(errors='coerce', dayfirst=True) on one cell; the date texts
\* of the model are all of the form dd-Mon-yy
to_datetime_2b(cell) == IF IsNa(cell) THEN NaT ELSE ParseDayMonthYear(cell)


(***************************************************************************)
(* The normalizers.  A raw table is a sequence of rows, a row a sequence   *)
(* of cells; column names are texts.  The Month column, a function of      *)
(* Invoice_Date alone, is kept as the number of the date's month.          *)
(***************************************************************************)
GSTIN_ == <<"G", "S", "T", "I", "N">>
Trade_Name_ == <<"T", "r", "a", "d", "e", "_", "N", "a", "m", "e">>
Invoice_No_ == <<"I", "n", "v", "o", "i", "c", "e", "_", "N", "o">>
Invoice_Date_ == <<"I", "n", "v", "o", "i", "c", "e", "_", "D", "a", "t", "e">>
Invoice_Value_ == <<"I", "n", "v", "o", "i", "c", "e", "_", "V", "a", "l", "u", "e">>
Taxable_Value_ == <<"T", "a", "x", "a", "b", "l", "e", "_", "V", "a", "l", "u", "e">>
IGST_ == <<"I", "G", "S", "T">>
CGST_ == <<"C", "G", "S", "T">>
SGST_ == <<"S", "G", "S", "T">>

required == <<GSTIN_, Invoice_No_, Invoice_Date_>>

SetMin(S) == CHOOSE x \in S : \A y \in S : x <= y

Smaller(a, b) == IF a <= b THEN a ELSE b

\* any(kw in str(x).lower() for x in row_values)
RowHas(row, kw) == \E j \in 1..Len(row) : Contains(Lower(Str(row[j])), kw)

\* df.dropna(how='all')
DropNaRows(rows) == SelectSeq(rows, LAMBDA r : \E j \in 1..Len(r) : ~IsNa(r[j]))

\* [str(col).strip() for col in df.columns]
StripNames(header) == [j \in 1..Len(header) |-> Strip(Str(header[j]))]

HasColumn(columns, name) == \E j \in 1..Len(columns) : columns[j] = name

Ambiguous(columns, name) == Cardinality({j \in 1..Len(columns) : columns[j] = name}) > 1

ColumnOf(columns, name) == SetMin({j \in 1..Len(columns) : columns[j] = name})

\* only the first missing field is reported
MissingCols_First(columns) ==
    LET all == SelectSeq(required, LAMBDA c : ~HasColumn(columns, c))
    IN  IF all = <<>> THEN <<>> ELSE <<Head(all)>>

\* [col for col in required if col not in df.columns]
MissingCols(columns) == SelectSeq(required, LAMBDA c : ~HasColumn(columns, c))

Period(d) == IF d = NaT THEN NaT ELSE (d - 1) \div 31

\* no collapsing of repeated keys
DropDuplicateKeys_None(rows) == rows

\* drop_duplicates(subset=['GSTIN', 'Invoice_No']): keep the first of a key
RECURSIVE DropDuplicateKeys(_)
DropDuplicateKeys(rows) ==
    IF rows = <<>> THEN <<>>
    ELSE LET init == DropDuplicateKeys(SubSeq(rows, 1, Len(rows) - 1))
             last == rows[Len(rows)]
         IN  IF \E i \in 1..Len(init) :
                   init[i].GSTIN = last.GSTIN /\ init[i].Invoice_No = last.Invoice_No
             THEN init ELSE Append(init, last)

\* df[df['Invoice_Date'].notna()]
DropNullDates(rows) == SelectSeq(rows, LAMBDA r : r.Invoice_Date # NaT)

Failure(kind, names) == [status |-> "error", error |-> kind, missing |-> names]

Table(rows) == [status |-> "ok", table |-> rows]

TALLY_SCAN == 15

\* index (from 1) of the row promoted to header: the first row of the scan
\* window holding "date" and "particular", else the first row
TallyHeaderIdx(df) ==
    LET hits == {i \in 1..Smaller(Len(df), TALLY_SCAN) :
                    RowHas(df[i], <<"d", "a", "t", "e">>) /\ RowHas(df[i], <<"p", "a", "r", "t", "i", "c", "u", "l", "a", "r">>)}
    IN  IF hits = {} THEN 1 ELSE SetMin(hits)

\* the exact column mapping
TallyRename(col) ==
    CASE col = <<"D", "a", "t", "e">> -> Invoice_Date_
      [] col = <<"P", "a", "r", "t", "i", "c", "u", "l", "a", "r", "s">> -> Trade_Name_
      [] col = <<"S", "u", "p", "p", "l", "i", "e", "r", " ", "I", "n", "v", "o", "i", "c", "e", " ", "N", "o", ".">> -> Invoice_No_
      [] col = <<"G", "S", "T", "I", "N", "/", "U", "I", "N">> -> GSTIN_
      [] col = <<"G", "r", "o", "s", "s", " ", "T", "o", "t", "a", "l">> -> Invoice_Value_
      [] OTHER -> col

TallyColumns(header) == [j \in 1..Len(header) |-> TallyRename(StripNames(header)[j])]

\* a column that the tax loop picks for CGST, SGST or IGST
IsTallyTaxColumn(col) ==
    ContainsAny(Lower(col), {<<"i", "n", "p", "u", "t", "_", "c", "g", "s", "t">>, <<"i", "n", "p", "u", "t", "_", "s", "g", "s", "t">>, <<"i", "n", "p", "u", "t", " ", "i", "g", "s", "t">>})

\* columns as they stand after df['CGST'], df['SGST'], df['IGST'] are assigned
WithTaxColumns(columns) ==
    columns \o SelectSeq(<<CGST_, SGST_, IGST_>>, LAMBDA c : ~HasColumn(columns, c))

ValueCols(columns) ==
    {j \in 1..Len(columns) :
        Contains(Lower(columns[j]), <<"v", "a", "l", "u", "e">>) \/ Contains(Lower(columns[j]), <<"t", "o", "t", "a", "l">>)}

\* Invoice_Value of one data row
TallyInvoiceValue(columns, r) ==
    IF HasColumn(columns, Invoice_Value_)
    THEN parse_numeric(r[ColumnOf(columns, Invoice_Value_)])
    ELSE IF ValueCols(WithTaxColumns(columns)) # {}
         THEN LET j == SetMin(ValueCols(WithTaxColumns(columns)))
              IN  IF j <= Len(r) THEN parse_numeric(r[j]) ELSE 0
         ELSE 0

\* one data row, cleaned and completed; the three taxes are the constant 0
\* of the branch without a tax column
TallyRow(columns, r) ==
    LET value == TallyInvoiceValue(columns, r)
        date  == to_datetime_tally(r[ColumnOf(columns, Invoice_Date_)])
    IN  [GSTIN         |-> clean_string(r[ColumnOf(columns, GSTIN_)]),
         Trade_Name    |-> r[ColumnOf(columns, Trade_Name_)],
         Invoice_No    |-> clean_invoice_number(r[ColumnOf(columns, Invoice_No_)]),
         Invoice_Date  |-> date,
         Month         |-> Period(date),
         Taxable_Value |-> value - (0 + 0 + 0),
         Invoice_Value |-> value,
         IGST          |-> 0,
         CGST          |-> 0,
         SGST          |-> 0,
         TOTAL_TAX     |-> 0 + 0 + 0]

parse_tally(df) ==
    IF df = <<>> THEN Failure("IndexError", <<>>)
    ELSE
      LET header_idx == TallyHeaderIdx(df)
          columns    == TallyColumns(df[header_idx])
          body       == DropNaRows(SubSeq(df, header_idx + 1, Len(df)))
      IN  IF MissingCols(columns) # <<>>
          THEN Failure("RequiredColumnsNotFound", MissingCols(columns))
          ELSE IF \E c \in {GSTIN_, Invoice_No_, Invoice_Date_, Invoice_Value_} :
                     Ambiguous(columns, c)
          THEN Failure("AmbiguousColumn", <<>>)
          ELSE IF \E j \in 1..Len(columns) : IsTallyTaxColumn(columns[j])
          THEN Failure("SeriesTruthValue", <<>>)
          ELSE IF ~HasColumn(columns, Trade_Name_)
          THEN Failure("KeyError", <<>>)
          ELSE Table(DropNullDates(DropDuplicateKeys(
                   [i \in 1..Len(body) |-> TallyRow(columns, body[i])])))

GSTR2B_SCAN == 30

\* index (from 1) of the detected header row, 0 when none is detected
Gstr2bHeaderIdx(df) ==
    LET window == 1..Smaller(Len(df), GSTR2B_SCAN)
        first  == {i \in window : RowHas(df[i], <<"g", "s", "t", "i", "n">>)}
        second == {i \in window :
                      RowHas(df[i], <<"i", "n", "v", "o", "i", "c", "e">>) \/ RowHas(df[i], <<"t", "a", "x", "a", "b", "l", "e">>)
                      \/ RowHas(df[i], <<"g", "s", "t">>)}
    IN  IF first # {} THEN SetMin(first)
        ELSE IF second # {} THEN SetMin(second)
        ELSE 0

\* the row after the header carries column text too
HasSecondHeaderRow(df, header_idx) ==
    /\ header_idx < Len(df)
    /\ ~ \A j \in 1..Len(df[header_idx + 1]) : Str(df[header_idx + 1][j]) = <<"n", "a", "n">>

FillNa(cell) == IF IsNa(cell) THEN <<>> ELSE cell

\* f"{h1} {h2}".strip() per column
CombinedHeaders(row1, row2) ==
    [j \in 1..Len(row1) |-> Strip(FillNa(row1[j]) \o << " " >> \o FillNa(row2[j]))]

Gstr2bRename(col) ==
    LET col_lower == Lower(col)
    IN  IF Contains(col_lower, <<"g", "s", "t", "i", "n">>) THEN GSTIN_
        ELSE IF ContainsAny(col_lower, {<<"t", "r", "a", "d", "e">>, <<"l", "e", "g", "a", "l">>, <<"n", "a", "m", "e">>, <<"s", "u", "p", "p", "l", "i", "e", "r">>, <<"p", "a", "r", "t", "y">>})
        THEN Trade_Name_
        ELSE IF ContainsAny(col_lower, {<<"i", "n", "v", "o", "i", "c", "e", " ", "n", "u", "m", "b", "e", "r">>, <<"i", "n", "v", " ", "n", "o">>, <<"i", "n", "v", "o", "i", "c", "e", " ", "n", "o">>, <<"b", "i", "l", "l", " ", "n", "o">>})
        THEN Invoice_No_
        ELSE IF ContainsAny(col_lower, {<<"i", "n", "v", "o", "i", "c", "e", " ", "d", "a", "t", "e">>, <<"i", "n", "v", " ", "d", "a", "t", "e">>, <<"b", "i", "l", "l", " ", "d", "a", "t", "e">>})
        THEN Invoice_Date_
        ELSE IF ContainsAny(col_lower, {<<"t", "a", "x", "a", "b", "l", "e", " ", "v", "a", "l", "u", "e">>, <<"t", "a", "x", "a", "b", "l", "e", " ", "a", "m", "t">>, <<"t", "a", "x", "a", "b", "l", "e", " ", "a", "m", "o", "u", "n", "t">>})
        THEN Taxable_Value_
        ELSE IF ContainsAny(col_lower, {<<"i", "n", "t", "e", "g", "r", "a", "t", "e", "d", " ", "t", "a", "x">>, <<"i", "g", "s", "t">>}) THEN IGST_
        ELSE IF ContainsAny(col_lower, {<<"c", "e", "n", "t", "r", "a", "l", " ", "t", "a", "x">>, <<"c", "g", "s", "t">>}) THEN CGST_
        ELSE IF ContainsAny(col_lower, {<<"s", "t", "a", "t", "e">>, <<"s", "g", "s", "t">>, <<"u", "t", "g", "s", "t">>}) THEN SGST_
        ELSE col

Gstr2bColumns(df, header_idx) ==
    LET names == IF HasSecondHeaderRow(df, header_idx)
                 THEN StripNames(CombinedHeaders(df[header_idx], df[header_idx + 1]))
                 ELSE StripNames(df[header_idx])
    IN  [j \in 1..Len(names) |-> Gstr2bRename(names[j])]

Gstr2bBody(df, header_idx) ==
    DropNaRows(SubSeq(df, header_idx + (IF HasSecondHeaderRow(df, header_idx) THEN 2 ELSE 1),
                      Len(df)))

\* a numeric column of one data row: coerced when present, else 0.0
Gstr2bNumeric(columns, r, name) ==
    IF HasColumn(columns, name) THEN to_numeric_fillna(r[ColumnOf(columns, name)]) ELSE 0

Gstr2bRow(columns, r) ==
    LET gstin   == Upper(Strip(Str(r[ColumnOf(columns, GSTIN_)])))
        date    == to_datetime_2b(r[ColumnOf(columns, Invoice_Date_)])
        taxable == Gstr2bNumeric(columns, r, Taxable_Value_)
        igst    == Gstr2bNumeric(columns, r, IGST_)
        cgst    == Gstr2bNumeric(columns, r, CGST_)
        sgst    == Gstr2bNumeric(columns, r, SGST_)
    IN  [GSTIN         |-> gstin,
         Trade_Name    |-> IF HasColumn(columns, Trade_Name_)
                           THEN r[ColumnOf(columns, Trade_Name_)] ELSE gstin,
         Invoice_No    |-> clean_invoice_number(Str(r[ColumnOf(columns, Invoice_No_)])),
         Invoice_Date  |-> date,
         Month         |-> Period(date),
         Taxable_Value |-> taxable,
         Invoice_Value |-> taxable + (igst + cgst + sgst),
         IGST          |-> igst,
         CGST          |-> cgst,
         SGST          |-> sgst,
         TOTAL_TAX     |-> igst + cgst + sgst]

parse_gstr2b(df) ==
    LET header_idx == Gstr2bHeaderIdx(df)
    IN  IF header_idx = 0 THEN Failure("HeaderNotDetected", <<>>)
        ELSE
          LET columns == Gstr2bColumns(df, header_idx)
              body    == Gstr2bBody(df, header_idx)
          IN  IF MissingCols(columns) # <<>>
              THEN Failure("RequiredColumnsNotFound", MissingCols(columns))
              ELSE IF \E c \in {GSTIN_, Invoice_No_, Invoice_Date_, Taxable_Value_,
                                IGST_, CGST_, SGST_} : Ambiguous(columns, c)
              THEN Failure("AmbiguousColumn", <<>>)
              ELSE Table(DropNullDates(DropDuplicateKeys(
                       [i \in 1..Len(body) |-> Gstr2bRow(columns, body[i])])))


(***************************************************************************)
(* Raw tables given to the normalizers: title rows, then a header block,   *)
(* then data rows.  The six columns hold, in this order, the date, the     *)
(* supplier name, the invoice number, the GSTIN, the amount and a tax.     *)
(***************************************************************************)
MaxDataRows == 2

TitleRow == <<<<"G", "S", "T", " ", "P", "u", "r", "c", "h", "a", "s", "e", " ", "R", "e", "g", "i", "s", "t", "e", "r">>, NaN, NaN, NaN, NaN, NaN>>

EmptyRow == <<NaN, NaN, NaN, NaN, NaN, NaN>>

UnitsRow == <<NaN, NaN, NaN, NaN, <<"(", "R", "s", ")">>, <<"(", "R", "s", ")">>>>

TallyHeader ==
    <<<<"D", "a", "t", "e">>, <<"P", "a", "r", "t", "i", "c", "u", "l", "a", "r", "s">>, <<"S", "u", "p", "p", "l", "i", "e", "r", " ", "I", "n", "v", "o", "i", "c", "e", " ", "N", "o", ".">>, <<"G", "S", "T", "I", "N", "/", "U", "I", "N">>, <<"G", "r", "o", "s", "s", " ", "T", "o", "t", "a", "l">>, <<"N", "a", "r", "r", "a", "t", "i", "o", "n">>>>

TallyHeaderInputTax ==
    <<<<"D", "a", "t", "e">>, <<"P", "a", "r", "t", "i", "c", "u", "l", "a", "r", "s">>, <<"S", "u", "p", "p", "l", "i", "e", "r", " ", "I", "n", "v", "o", "i", "c", "e", " ", "N", "o", ".">>, <<"G", "S", "T", "I", "N", "/", "U", "I", "N">>, <<"G", "r", "o", "s", "s", " ", "T", "o", "t", "a", "l">>, <<"I", "n", "p", "u", "t", "_", "C", "G", "S", "T">>>>

TallyHeaderCgst ==
    <<<<"D", "a", "t", "e">>, <<"P", "a", "r", "t", "i", "c", "u", "l", "a", "r", "s">>, <<"S", "u", "p", "p", "l", "i", "e", "r", " ", "I", "n", "v", "o", "i", "c", "e", " ", "N", "o", ".">>, <<"G", "S", "T", "I", "N", "/", "U", "I", "N">>, <<"G", "r", "o", "s", "s", " ", "T", "o", "t", "a", "l">>, <<"C", "G", "S", "T">>>>

TallyHeaderNoKey ==
    <<<<"D", "a", "t", "e">>, <<"P", "a", "r", "t", "i", "c", "u", "l", "a", "r", "s">>, <<"I", "n", "v", "o", "i", "c", "e", " ", "N", "o">>, <<"P", "a", "r", "t", "y", " ", "G", "S", "T", "I", "N">>, <<"G", "r", "o", "s", "s", " ", "T", "o", "t", "a", "l">>, <<"N", "a", "r", "r", "a", "t", "i", "o", "n">>>>

TallyHeaderNamed ==
    <<<<"D", "a", "t", "e">>, <<"T", "r", "a", "d", "e", "_", "N", "a", "m", "e">>, <<"S", "u", "p", "p", "l", "i", "e", "r", " ", "I", "n", "v", "o", "i", "c", "e", " ", "N", "o", ".">>, <<"G", "S", "T", "I", "N", "/", "U", "I", "N">>, <<"G", "r", "o", "s", "s", " ", "T", "o", "t", "a", "l">>, <<"N", "a", "r", "r", "a", "t", "i", "o", "n">>>>

Gstr2bHeader ==
    <<<<"I", "n", "v", "o", "i", "c", "e", " ", "D", "a", "t", "e">>, <<"T", "r", "a", "d", "e", "/", "L", "e", "g", "a", "l", " ", "n", "a", "m", "e">>, <<"I", "n", "v", "o", "i", "c", "e", " ", "n", "u", "m", "b", "e", "r">>, <<"G", "S", "T", "I", "N", " ", "o", "f", " ", "s", "u", "p", "p", "l", "i", "e", "r">>,
      <<"T", "a", "x", "a", "b", "l", "e", " ", "V", "a", "l", "u", "e">>, <<"C", "e", "n", "t", "r", "a", "l", " ", "T", "a", "x">>>>

Gstr2bHeaderNoDate ==
    <<<<"D", "a", "t", "e", "d">>, <<"T", "r", "a", "d", "e", "/", "L", "e", "g", "a", "l", " ", "n", "a", "m", "e">>, <<"I", "n", "v", "o", "i", "c", "e", " ", "n", "u", "m", "b", "e", "r">>, <<"G", "S", "T", "I", "N", " ", "o", "f", " ", "s", "u", "p", "p", "l", "i", "e", "r">>,
      <<"T", "a", "x", "a", "b", "l", "e", " ", "V", "a", "l", "u", "e">>, <<"C", "e", "n", "t", "r", "a", "l", " ", "T", "a", "x">>>>

Gstr2bHeaderNoGstin ==
    <<<<"I", "n", "v", "o", "i", "c", "e", " ", "D", "a", "t", "e">>, <<"T", "r", "a", "d", "e", "/", "L", "e", "g", "a", "l", " ", "n", "a", "m", "e">>, <<"I", "n", "v", "o", "i", "c", "e", " ", "n", "u", "m", "b", "e", "r">>, <<"S", "u", "p", "p", "l", "i", "e", "r", " ", "I", "D">>,
      <<"T", "a", "x", "a", "b", "l", "e", " ", "V", "a", "l", "u", "e">>, <<"C", "e", "n", "t", "r", "a", "l", " ", "T", "a", "x">>>>

HeaderBlocks ==
    {<<>>, <<TallyHeader>>, <<TallyHeaderInputTax>>, <<TallyHeaderCgst>>,
     <<TallyHeaderNoKey>>, <<TallyHeaderNamed>>, <<Gstr2bHeader>>,
     <<Gstr2bHeader, UnitsRow>>, <<Gstr2bHeaderNoDate>>, <<Gstr2bHeaderNoGstin>>}

\* no title row, one, or as many as the scan window of parse_tally is long
TitleCounts == {0, 1, TALLY_SCAN}

DateCells == {<<"0", "5", "-", "A", "p", "r", "-", "2", "4">>, <<"n", "/", "a">>}

InvoiceCells == {NaN, <<"/">>, <<"a", "/", "1">>}

GstinCells == {NaN, <<" ", "g">>}

DataRows ==
    {<<d, <<"A", "c", "m", "e">>, i, g, <<"1", ",", "0", "0", "0", " ", "D", "r">>, <<"9", "0">>>> :
        d \in DateCells, i \in InvoiceCells, g \in GstinCells}
    \cup {EmptyRow, <<<<"0", "6", "-", "A", "p", "r", "-", "2", "4">>, <<"A", "c", "m", "e">>, <<"b", " ", "2">>, <<"h">>, <<"5", "0", "0">>, NaN>>}

RECURSIVE SeqsUpTo(_, _)
SeqsUpTo(S, n) ==
    IF n = 0 THEN {<<>>}
    ELSE LET shorter == SeqsUpTo(S, n - 1)
         IN  shorter \cup {Append(t, r) : t \in {q \in shorter : Len(q) = n - 1}, r \in S}

\* the raw tables with at least one row
RawTables ==
    {[i \in 1..k |-> TitleRow] \o h \o d :
        k \in TitleCounts, h \in HeaderBlocks, d \in SeqsUpTo(DataRows, MaxDataRows)}
    \ {<<>>}

NotParsed == [status |-> "none"]

(***************************************************************************)
(* The normalizers applied to a raw table                                  *)
(***************************************************************************)
ParseTally ==
    /\ ppc = "start"
    /\ parsed' = parse_tally(raw)
    /\ fn' = "parse_tally"
    /\ ppc' = "done"
    /\ UNCHANGED <<raw, rvars, avars>>

ParseGstr2b ==
    /\ ppc = "start"
    /\ parsed' = parse_gstr2b(raw)
    /\ fn' = "parse_gstr2b"
    /\ ppc' = "done"
    /\ UNCHANGED <<raw, rvars, avars>>

InitParse ==
    /\ raw \in RawTables
    /\ fn = "none"
    /\ parsed = NotParsed
    /\ ppc = "start"
    /\ gstr2b_df = <<>>
    /\ tally_df = <<>>
    /\ merged = <<>>
    /\ results = NoResults
    /\ pc = "idle"
    /\ session_state = NoResults
    /\ selected_month = "All Months"
    /\ apc = "idle"

NextParse == ParseTally \/ ParseGstr2b

SpecParse == InitParse /\ [][NextParse]_vars

(***************************************************************************)
(* The display script (src/app.py): the Run Reconciliation handler, and    *)
(* the month filter that every rerun of the script applies to the result   *)
(* held in st.session_state.  gstr2b_df and tally_df are the two cleaned   *)
(* tables of the run, results is the dictionary reconcile returned, and    *)
(* session_state is the dictionary st.session_state.results holds.         *)
(***************************************************************************)
AllMonths == "All Months"

MonthLabels == <<"2024-01", "2024-02", "2024-03", "2024-04", "2024-05", "2024-06",
                 "2024-07", "2024-08", "2024-09", "2024-10", "2024-11", "2024-12">>

\* dt.to_period("M").astype(str) of a day of 2024, months of 31 day numbers
MonthLabel(d) == MonthLabels[Period(d) + 1]

\* statement and books rows of the app runs: dates in January (30) and in
\* February (33), three days apart
AppAttrs2B == {<<30, 100, 100>>, <<33, 100, 100>>}

AppAttrsBooks == {<<30, 100, 100>>, <<33, 100, 100>>, <<33, 500, 100>>}

AppRows2B == {CanonRow(k, a) : k \in Keys, a \in AppAttrs2B}

AppRowsBooks == {CanonRow(k, a) : k \in Keys, a \in AppAttrsBooks}

ResultKeys == {"fully_matched", "missing_in_books", "missing_in_2b", "value_mismatch", "tax_mismatch"}

\* the date column the filter reads: the first of Invoice_Date_2B,
\* Invoice_Date_Tally, Invoice_Date that the table has
DateColumn(r) ==
    IF "Invoice_Date_2B" \in DOMAIN r THEN "Invoice_Date_2B"
    ELSE IF "Invoice_Date_Tally" \in DOMAIN r THEN "Invoice_Date_Tally"
    ELSE "Invoice_Date"

\* df[df[date_col].dt.to_period("M").astype(str) == selected_month]
FilterMonth(df, month) == SelectSeq(df, LAMBDA r : MonthLabel(r[DateColumn(r)]) = month)

\* the selectbox is shown when fully_matched is not empty
FilterOffered(res) == res.fully_matched # <<>>

AvailableMonths(res) ==
    {MonthLabel(res.fully_matched[i].Invoice_Date_2B) : i \in 1..Len(res.fully_matched)}

MonthOptions(res) == {AllMonths} \cup AvailableMonths(res)

\* the dictionary after the filter loop: results[key] = df[...] per table
MonthFilter(res, month) ==
    IF FilterOffered(res) /\ month # AllMonths
    THEN [c \in DOMAIN res |-> IF c \in ResultKeys THEN FilterMonth(res[c], month) ELSE res[c]]
    ELSE res

\* the button handler on the two cleaned tables, followed by the first
\* display of the result, the new selectbox standing at "All Months"
RunReconciliation ==
    /\ apc = "uploaded"
    /\ LET out == reconcile(gstr2b_df, tally_df)
       IN  /\ gstr2b_df' = out.gstr2b_df
           /\ tally_df' = out.tally_df
           /\ merged' = out.merged
           /\ results' = out.results
           /\ session_state' = MonthFilter(out.results, AllMonths)
    /\ selected_month' = AllMonths
    /\ apc' = "shown"
    /\ UNCHANGED <<pc, pvars>>

\* a rerun of the script with the month the user has selected among the
\* options the selectbox offers
Rerun(month) ==
    /\ apc = "shown"
    /\ month \in MonthOptions(session_state)
    /\ FilterOffered(session_state) \/ month = AllMonths
    /\ session_state' = MonthFilter(session_state, month)
    /\ selected_month' = month
    /\ UNCHANGED <<rvars, pvars, apc>>

InitApp ==
    /\ gstr2b_df \in CanonTables(AppRows2B)
    /\ tally_df \in CanonTables(AppRowsBooks)
    /\ merged = <<>>
    /\ results = NoResults
    /\ pc = "idle"
    /\ raw = <<>>
    /\ fn = "none"
    /\ parsed = NotParsed
    /\ ppc = "idle"
    /\ session_state = NoResults
    /\ selected_month = AllMonths
    /\ apc = "uploaded"

NextApp == RunReconciliation \/ \E month \in Range(MonthLabels) \cup {AllMonths} : Rerun(month)

SpecApp == InitApp /\ [][NextApp]_vars

(***************************************************************************)
(* Properties of reconcile                                                 *)
(***************************************************************************)
Done == pc = "done"

Idx(df) == 1..Len(df)

\* the same invoice on the two sides: equal GSTIN + '|' + Invoice_No
SameInvoice(s, b) == s.GSTIN \o <<"|">> \o s.Invoice_No = b.GSTIN \o <<"|">> \o b.Invoice_No

DaysApart(s, b) ==
    IF s.Invoice_Date >= b.Invoice_Date
    THEN s.Invoice_Date - b.Invoice_Date ELSE b.Invoice_Date - s.Invoice_Date

\* number of rows of a single-side output table that are the invoice of row r
CountSingle(out, r) ==
    Cardinality({i \in Idx(out) :
        out[i].GSTIN = r.GSTIN /\ out[i].Invoice_No = r.Invoice_No})

\* number of pairs of a classified table whose statement side is row s
Count2B(out, s) ==
    Cardinality({i \in Idx(out) :
        out[i].GSTIN_2B = s.GSTIN /\ out[i].Invoice_No_2B = s.Invoice_No})

\* number of pairs of a classified table whose books side is row b
CountTally(out, b) ==
    Cardinality({i \in Idx(out) :
        out[i].GSTIN_Tally = b.GSTIN /\ out[i].Invoice_No_Tally = b.Invoice_No})

InDateGap2B(s) ==
    \E j \in Idx(tally_df) : SameInvoice(s, tally_df[j]) /\ DaysApart(s, tally_df[j]) > 5

InDateGapTally(b) ==
    \E i \in Idx(gstr2b_df) : SameInvoice(gstr2b_df[i], b) /\ DaysApart(gstr2b_df[i], b) > 5

Places2B(s) ==
    CountSingle(results.missing_in_books, s)
    + Count2B(results.fully_matched, s)
    + Count2B(results.value_mismatch, s)
    + Count2B(results.tax_mismatch, s)
    + (IF InDateGap2B(s) THEN 1 ELSE 0)

PlacesTally(b) ==
    CountSingle(results.missing_in_2b, b)
    + CountTally(results.fully_matched, b)
    + CountTally(results.value_mismatch, b)
    + CountTally(results.tax_mismatch, b)
    + (IF InDateGapTally(b) THEN 1 ELSE 0)

\* C1: after reconcile on two tables with unique Match_Key, every statement
\* row and every books row is in exactly one of: its missing set,
\* fully_matched, value_mismatch, tax_mismatch, or the date-mismatch gap (key
\* on both sides, dates more than 5 days apart); none is in two places and
\* none is in no place.
C1_PartitionComplete ==
    Done => /\ \A i \in Idx(gstr2b_df) : Places2B(gstr2b_df[i]) = 1
            /\ \A j \in Idx(tally_df) : PlacesTally(tally_df[j]) = 1

\* a run with a pair in the date gap, a pair whose value and tax both
\* disagree, and nothing missing
C1_Witness ==
    /\ Done
    /\ Len(gstr2b_df) = 2 /\ Len(tally_df) = 2
    /\ \E i \in Idx(gstr2b_df) : InDateGap2B(gstr2b_df[i])
    /\ \E i \in Idx(results.value_mismatch) :
          ~results.value_mismatch[i].Value_Match /\ ~results.value_mismatch[i].Tax_Match

Occurrences(out, m) == Cardinality({i \in Idx(out) : out[i] = m})

RowsOf(out) == {out[i] : i \in Idx(out)}

\* C2: every joined pair is in fully_matched iff Date_Match, Value_Match and
\* Tax_Match; in value_mismatch (exactly once) iff Date_Match and not
\* Value_Match, whatever Tax_Match is; in tax_mismatch iff Date_Match and
\* Value_Match and not Tax_Match; so no pair is in both mismatch sets or twice
\* in one, and the classified sets hold joined pairs only.
C2_Classification ==
    Done =>
      /\ \A k \in Idx(merged) :
            LET m == merged[k]
            IN  /\ Occurrences(results.fully_matched, m)
                     = (IF m.Date_Match /\ m.Value_Match /\ m.Tax_Match THEN 1 ELSE 0)
                /\ Occurrences(results.value_mismatch, m)
                     = (IF m.Date_Match /\ ~m.Value_Match THEN 1 ELSE 0)
                /\ Occurrences(results.tax_mismatch, m)
                     = (IF m.Date_Match /\ m.Value_Match /\ ~m.Tax_Match THEN 1 ELSE 0)
      /\ RowsOf(results.fully_matched) \cup RowsOf(results.value_mismatch)
            \cup RowsOf(results.tax_mismatch) \subseteq RowsOf(merged)

\* a run with one pair whose value and tax both disagree and one pair whose
\* tax alone disagrees
C2_Witness ==
    /\ Done
    /\ \E k \in Idx(merged) :
          merged[k].Date_Match /\ ~merged[k].Value_Match /\ ~merged[k].Tax_Match
    /\ \E k \in Idx(merged) :
          merged[k].Date_Match /\ merged[k].Value_Match /\ ~merged[k].Tax_Match

Unmatched2B == {s \in RowsOf(gstr2b_df) : \A j \in Idx(tally_df) : ~SameInvoice(s, tally_df[j])}

UnmatchedTally == {b \in RowsOf(tally_df) : \A i \in Idx(gstr2b_df) : ~SameInvoice(gstr2b_df[i], b)}

\* C3: missing_in_books is exactly the statement rows whose Match_Key
\* (GSTIN + '|' + Invoice_No) is the key of no books row, missing_in_2b is
\* exactly the books rows whose key is the key of no statement row, and
\* Total_Missing_Books / Total_Missing_2B are the sizes of those sets.
C3_MissingSets ==
    Done =>
      /\ RowsOf(results.missing_in_books) = Unmatched2B
      /\ RowsOf(results.missing_in_2b) = UnmatchedTally
      /\ Len(results.missing_in_books) = Cardinality(Unmatched2B)
      /\ Len(results.missing_in_2b) = Cardinality(UnmatchedTally)
      /\ results.summary.Total_Missing_Books = Cardinality(Unmatched2B)
      /\ results.summary.Total_Missing_2B = Cardinality(UnmatchedTally)

\* a run in which each side has one invoice of the other side and one the
\* other side lacks, the two lacking ones sharing their GSTIN
C3_Witness ==
    /\ Done
    /\ Len(gstr2b_df) = 2 /\ Len(tally_df) = 2
    /\ Cardinality(Unmatched2B) = 1 /\ Cardinality(UnmatchedTally) = 1
    /\ \E s \in Unmatched2B : \E b \in UnmatchedTally : s.GSTIN = b.GSTIN

RECURSIVE TaxOfFirst(_, _)
TaxOfFirst(df, n) == IF n = 0 THEN 0 ELSE TaxOfFirst(df, n - 1) + df[n].TOTAL_TAX

\* C4: the summary counts the rows of the full books and statement tables,
\* Total_Matched counts the fully-matched pairs, Total_ITC_Books and
\* Total_ITC_2B sum TOTAL_TAX over the full tables, and ITC_Difference is
\* Total_ITC_2B - Total_ITC_Books; with an empty statement table and a
\* non-empty books table all books rows are in missing_in_2b, Total_Matched
\* is 0 and ITC_Difference is 0 - sum of the books TOTAL_TAX.
C4_Summary ==
    Done =>
      LET sm == results.summary
      IN  /\ sm.Total_Invoices_Books = Len(tally_df)
          /\ sm.Total_Invoices_2B = Len(gstr2b_df)
          /\ sm.Total_Matched = Len(results.fully_matched)
          /\ sm.Total_ITC_Books = TaxOfFirst(tally_df, Len(tally_df))
          /\ sm.Total_ITC_2B = TaxOfFirst(gstr2b_df, Len(gstr2b_df))
          /\ sm.ITC_Difference = sm.Total_ITC_2B - sm.Total_ITC_Books
          /\ (gstr2b_df = <<>> /\ tally_df # <<>>) =>
                /\ results.missing_in_2b = tally_df
                /\ sm.Total_Matched = 0
                /\ sm.ITC_Difference = 0 - TaxOfFirst(tally_df, Len(tally_df))

\* a run with an empty statement table and two books rows carrying tax
C4_Witness ==
    /\ Done
    /\ gstr2b_df = <<>>
    /\ Len(tally_df) = 2
    /\ results.summary.ITC_Difference = -402

\* C5: the tolerances are inclusive: Value_Match iff the taxable values are at
\* most 1.00 apart (1.00 matches, 1.01 does not), Tax_Match iff the total
\* taxes are at most 1.00 apart, Date_Match iff the dates are at most 5 days
\* apart in either direction (5 matches, 6 does not).
C5_ToleranceInclusive ==
    Done =>
      \A k \in Idx(merged) :
        LET m  == merged[k]
            dv == m.Taxable_Value_2B - m.Taxable_Value_Tally
            dt == m.TOTAL_TAX_2B - m.TOTAL_TAX_Tally
            dd == m.Invoice_Date_2B - m.Invoice_Date_Tally
        IN  /\ m.Value_Match <=> (-100 <= dv /\ dv <= 100)
            /\ m.Tax_Match <=> (-100 <= dt /\ dt <= 100)
            /\ m.Date_Match <=> (-5 <= dd /\ dd <= 5)
            /\ (dv = 100 \/ dv = -100) => m.Value_Match
            /\ (dv = 101 \/ dv = -101) => ~m.Value_Match
            /\ (dd = 5 \/ dd = -5) => m.Date_Match
            /\ (dd = 6 \/ dd = -6) => ~m.Date_Match

\* a run with one pair exactly on the three tolerances and one pair just
\* beyond the value tolerance
C5_Witness ==
    /\ Done
    /\ \E k \in Idx(results.fully_matched) :
          LET m == results.fully_matched[k]
          IN  /\ m.Difference_Value = 100 /\ m.Difference_Tax = 100
              /\ m.Invoice_Date_2B - m.Invoice_Date_Tally = 5
    /\ \E k \in Idx(results.value_mismatch) :
          LET m == results.value_mismatch[k]
          IN  m.Difference_Value = -101 /\ m.Invoice_Date_2B - m.Invoice_Date_Tally = -5

(***************************************************************************)
(* Properties of the normalizers                                           *)
(***************************************************************************)
Parsed == ppc = "done"

Returned == ppc = "done" /\ parsed.status = "ok"

Failed == ppc = "done" /\ parsed.status = "error"

\* C6: in the table returned by parse_tally or parse_gstr2b no two rows have
\* the same (cleaned GSTIN, cleaned Invoice_No), hence no two rows get the
\* same Match_Key in reconcile.
C6_MatchKeyUnique ==
    Returned =>
      \A i, j \in Idx(parsed.table) :
        i # j =>
          /\ <<parsed.table[i].GSTIN, parsed.table[i].Invoice_No>>
                # <<parsed.table[j].GSTIN, parsed.table[j].Invoice_No>>
          /\ MatchKey(parsed.table[i]) # MatchKey(parsed.table[j])

\* parse_tally on a header and two data rows with parseable dates whose
\* invoice cells differ but clean to the same number: one row is returned
C6_Witness ==
    /\ Returned
    /\ fn = "parse_tally"
    /\ Len(raw) = 3
    /\ raw[2][3] # raw[3][3]
    /\ to_datetime_tally(raw[2][1]) # NaT /\ to_datetime_tally(raw[3][1]) # NaT
    /\ Len(parsed.table) = 1

\* C7: no row of a returned table has an empty GSTIN, an empty Invoice_No or
\* an absent Invoice_Date (rows with a blank or empty-cleaning GSTIN or
\* invoice number, or with an unparseable date, are dropped).
C7_RowsValid ==
    Returned =>
      \A i \in Idx(parsed.table) :
        /\ parsed.table[i].GSTIN # <<>>
        /\ parsed.table[i].Invoice_No # <<>>
        /\ parsed.table[i].Invoice_Date # NaT

\* no row of the scan window of parse_tally holds the header markers
NoTallyHeaderInWindow ==
    \A i \in 1..Len(raw) :
        i <= 15 => ~(RowHas(raw[i], <<"d", "a", "t", "e">>) /\ RowHas(raw[i], <<"p", "a", "r", "t", "i", "c", "u", "l", "a", "r">>))

\* C8: when no row within the scan window holds the header markers,
\* parse_tally fails with a 'header not detected' error and returns no table.
C8_HeaderNotDetected ==
    (Parsed /\ fn = "parse_tally" /\ NoTallyHeaderInWindow) =>
        (parsed.status = "error" /\ parsed.error = "HeaderNotDetected")

RequiredFields == {GSTIN_, Invoice_No_, Invoice_Date_}

NotMapped(columns) == {c \in RequiredFields : c \notin Range(columns)}

\* the outcome for a table whose columns after mapping are given
RequiredOutcome(columns) ==
    /\ NotMapped(columns) # {} =>
          /\ parsed.status = "error"
          /\ parsed.error = "RequiredColumnsNotFound"
          /\ Range(parsed.missing) = NotMapped(columns)
          /\ Len(parsed.missing) = Cardinality(NotMapped(columns))
    /\ parsed.status = "ok" => NotMapped(columns) = {}

\* C9: once the columns are mapped, a missing GSTIN, Invoice_No or
\* Invoice_Date makes parse_tally and parse_gstr2b raise an error naming
\* exactly the missing required fields; a table is returned only when all
\* three are mapped.
C9_RequiredFields ==
    /\ (Parsed /\ fn = "parse_tally" /\ raw # <<>>) =>
          RequiredOutcome(TallyColumns(raw[TallyHeaderIdx(raw)]))
    /\ (Parsed /\ fn = "parse_gstr2b" /\ Gstr2bHeaderIdx(raw) # 0) =>
          RequiredOutcome(Gstr2bColumns(raw, Gstr2bHeaderIdx(raw)))
    /\ Returned =>
          /\ fn = "parse_tally" => raw # <<>>
          /\ fn = "parse_gstr2b" => Gstr2bHeaderIdx(raw) # 0

\* parse_gstr2b on a table whose header maps the GSTIN only
C9_Witness ==
    /\ Failed
    /\ fn = "parse_gstr2b"
    /\ parsed.error = "RequiredColumnsNotFound"
    /\ parsed.missing = <<Invoice_No_, Invoice_Date_>>

IgstWords == {<<"i", "n", "t", "e", "g", "r", "a", "t", "e", "d">>, <<"i", "g", "s", "t">>}

CgstWords == {<<"c", "e", "n", "t", "r", "a", "l">>, <<"c", "g", "s", "t">>}

SgstWords == {<<"s", "t", "a", "t", "e">>, <<"s", "g", "s", "t">>, <<"u", "t", "g", "s", "t">>}

\* row-wise sum of the numeric values of the cells of row r under the
\* header cells that hold one of the words
RECURSIVE HeadSum(_, _, _, _)
HeadSum(header, r, words, n) ==
    IF n = 0 THEN 0
    ELSE HeadSum(header, r, words, n - 1)
         + (IF ContainsAny(Lower(Strip(Str(header[n]))), words)
            THEN parse_numeric(r[n]) ELSE 0)

\* the data rows of the raw table under the header parse_tally promotes
TallyBody == DropNaRows(SubSeq(raw, TallyHeaderIdx(raw) + 1, Len(raw)))

\* the first data row that an output row of parse_tally comes from
IsSourceOf(r, o, columns) ==
    /\ clean_string(r[ColumnOf(columns, GSTIN_)]) = o.GSTIN
    /\ clean_invoice_number(r[ColumnOf(columns, Invoice_No_)]) = o.Invoice_No

SourceOf(o, columns) ==
    TallyBody[SetMin({k \in Idx(TallyBody) : IsSourceOf(TallyBody[k], o, columns)})]

\* C10: in every output row of parse_tally IGST, CGST and SGST are the
\* row-wise sums, over every source column whose header matches the tax
\* head's keyword pattern, of the cell's numeric value (blank or non-numeric
\* as 0), and TOTAL_TAX is the sum of the three.
C10_TaxAggregation ==
    (Returned /\ fn = "parse_tally") =>
      LET header  == raw[TallyHeaderIdx(raw)]
          columns == TallyColumns(header)
      IN  \A i \in Idx(parsed.table) :
            LET o == parsed.table[i]
                r == SourceOf(o, columns)
            IN  /\ o.IGST = HeadSum(header, r, IgstWords, Len(header))
                /\ o.CGST = HeadSum(header, r, CgstWords, Len(header))
                /\ o.SGST = HeadSum(header, r, SgstWords, Len(header))
                /\ o.TOTAL_TAX = o.IGST + o.CGST + o.SGST

(***************************************************************************)
(* Frame and repetition of reconcile                                       *)
(***************************************************************************)
\* C11: a call of reconcile leaves both input tables unchanged: the same
\* columns and the same rows as before the call.
C11_InputsUnchanged == [][gstr2b_df' = gstr2b_df /\ tally_df' = tally_df]_vars

\* C12: a second call of reconcile on the same two table objects yields the
\* same five classified sets and the same summary as the first call.
C12_Idempotent == [][pc = "done" => results' = results]_vars

\* a second call has returned, for tables with a fully matched pair and a
\* row missing on each side
C12_Witness ==
    /\ pc = "again"
    /\ results.fully_matched # <<>>
    /\ results.missing_in_books # <<>>
    /\ results.missing_in_2b # <<>>

(***************************************************************************)
(* Duplicates and unparseable dates in the normalizers                     *)
(***************************************************************************)
\* some row of the returned table has the (GSTIN, Invoice_No) of cleaned row c
KeyReturned(c) ==
    \E i \in Idx(parsed.table) :
        parsed.table[i].GSTIN = c.GSTIN /\ parsed.table[i].Invoice_No = c.Invoice_No

\* C13: if the raw input of parse_tally or parse_gstr2b holds, for some
\* (GSTIN, Invoice_No), at least one row whose Invoice_Date is parseable, the
\* returned table holds a row for that key; an earlier duplicate with an
\* unparseable date does not make the invoice vanish.
C13_ParseableKeyKept ==
    /\ (Returned /\ fn = "parse_tally") =>
          LET columns == TallyColumns(raw[TallyHeaderIdx(raw)])
          IN  \A k \in Idx(TallyBody) :
                LET c == TallyRow(columns, TallyBody[k])
                IN  c.Invoice_Date # NaT => KeyReturned(c)
    /\ (Returned /\ fn = "parse_gstr2b") =>
          LET header_idx == Gstr2bHeaderIdx(raw)
              columns    == Gstr2bColumns(raw, header_idx)
              body       == Gstr2bBody(raw, header_idx)
          IN  \A k \in Idx(body) :
                LET c == Gstr2bRow(columns, body[k])
                IN  c.Invoice_Date # NaT => KeyReturned(c)

(***************************************************************************)
(* Properties of the display script                                        *)
(***************************************************************************)
\* C14: after a successful run and any sequence of month selections, the five
\* tables held in st.session_state.results are those reconcile returned (so
\* "All Months" shows every row again and the selectable months stay the
\* months of the original fully_matched table).
C14_StoredResultKept ==
    apc = "shown" =>
      /\ \A c \in ResultKeys : session_state[c] = results[c]
      /\ MonthOptions(session_state) = MonthOptions(results)

====
